---- MODULE Spec2Model ----
(***************************************************************************)
(* A model of rpi_m8q_gui: the UBX checksum tool, the fixed outbound UBX   *)
(* frames, the three frame readers (readUBX, readPollResponse,             *)
(* readACKResponse), the startup sequence of main (sendConfig, pollModule, *)
(* thread creation) and the double-buffer exchange between the GPS reader  *)
(* thread (startGPS) and the GTK main loop (updateGPSLabels,               *)
(* draw_map_and_marker).                                                   *)
(***************************************************************************)
EXTENDS Integers, Sequences, FiniteSets, TLC

VARIABLES
  ckMsg,    \* calculateUBXChecksum: the msg argument (length = Len(ckMsg))
  ckI,      \* calculateUBXChecksum: the loop counter i (bytes already added)
  ckA,      \* calculateUBXChecksum: *ck_a
  ckB,      \* calculateUBXChecksum: *ck_b
  ckPc      \* calculateUBXChecksum: "loop" while in the for loop, then "done"

ckVars == <<ckMsg, ckI, ckA, ckB, ckPc>>

VARIABLES
  rx,             \* transport: bytes the device has sent that no bcm2835_spi_transfer has returned yet
  slots,          \* the two incomingUBX structs of main (frontBuffer, backBuffer) with their payload containers
  overrun,        \* TRUE once readUBX has written past a slot's payload container
  isRunning,      \* main: atomic_bool_isRunning (*gpsRunning, *guiRunning)
  bufferLock,     \* buffers.bufferLock: the thread that holds it, or "free"
  gpsPc,          \* startGPS: control position of the GPS thread
  currentBuffer,  \* startGPS: the slot currentBuffer points to ("front" or "back")
  useFrontBuffer, \* startGPS: the local atomic_bool useFrontBuffer
  idleQueue,      \* GLib main context: the data arguments of the pending updateGPSLabels idle sources
  devNoise,       \* history: the noise bytes the device sent ahead of its frames
  devFrames,      \* history: the frames the device has sent, in order
  emitted,        \* history: the content of the slot after each completed readUBX call
  writeLog,       \* history: the slot each completed readUBX call has written
  handedLog       \* history: the data argument of each g_idle_add(updateGPSLabels, ...) call

xchgVars == <<rx, slots, overrun, isRunning, bufferLock, gpsPc, currentBuffer,
              useFrontBuffer, idleQueue, devNoise, devFrames, emitted,
              writeLog, handedLog>>

VARIABLES
  guiPc,          \* GTK main loop: "idle" between callbacks, else the position in the callback
  guiData,        \* updateGPSLabels: its data argument (useFirstBuffer)
  navpvt,         \* gui_setup.c: the global navpvt pointer ("null" until assigned)
  drawPending,    \* GTK: a draw of guiWindow.mapArea has been queued
  guiLat,         \* the local lat of updateGPSLabels / draw_map_and_marker, as raw 1e-7 degrees
  guiLon          \* the local lon of updateGPSLabels / draw_map_and_marker, as raw 1e-7 degrees

guiVars == <<guiPc, guiData, navpvt, drawPending, guiLat, guiLon>>

VARIABLES
  mainPc,         \* main: control position in sendConfig / pollModule / thread creation
  tx,             \* history: the frames written to the device, in order
  acks,           \* history: what each readACKResponse call printed
  polls,          \* history: what each readPollResponse call read and printed
  pressurePc,     \* simulatePressure thread: control position
  guiRunning      \* the global atomic_bool *guiRunning: "null" until startGUI sets it

suVars == <<mainPc, tx, acks, polls, pressurePc, guiRunning>>

vars == <<ckVars, xchgVars, guiVars, suVars>>

(***************************************************************************)
(* Bytes and fixed-width arithmetic                                        *)
(***************************************************************************)

\* uint8_t addition, as in *ck_a = *ck_a + msg[i]: the sum is truncated to 8 bits.
U8AddNoWrap(x, y) == x + y
U8Add(x, y) == (x + y) % 256

\* s[1] + ... + s[n], summed by halves
SeqSum(s, n) ==
  LET RECURSIVE go(_, _)
      go(lo, hi) == IF lo > hi THEN 0
                    ELSE IF lo = hi THEN s[lo]
                    ELSE go(lo, (lo + hi) \div 2) + go((lo + hi) \div 2 + 1, hi)
  IN  go(1, n)

\* the sum over k in 1..n of (n - k + 1) * s[k], summed by halves
SeqWeightedSum(s, n) ==
  LET RECURSIVE go(_, _)
      go(lo, hi) == IF lo > hi THEN 0
                    ELSE IF lo = hi THEN (n - lo + 1) * s[lo]
                    ELSE go(lo, (lo + hi) \div 2) + go((lo + hi) \div 2 + 1, hi)
  IN  go(1, n)

\* the UBX checksum of a frame body as the protocol defines it (8-bit Fletcher):
\* what a device puts behind the payload of a frame it sends
UbxChecksum(body) ==
  <<SeqSum(body, Len(body)) % 256, SeqWeightedSum(body, Len(body)) % 256>>

(***************************************************************************)
(* The fixed outbound frames (gps_setup.c), named after the arrays         *)
(***************************************************************************)

pollNavPVT == <<181, 98, 6, 1, 2, 0, 1, 7, 17, 58>>

pollRate == <<181, 98, 6, 8, 0, 0, 14, 48>>

\* the set-protocol frame with the last payload byte missing
cfg_ubx_only_short == <<181, 98, 6, 0, 20, 0, 4, 0, 0, 0, 0, 50, 0, 0, 0,
                        0, 0, 0, 1, 0, 1, 0, 0, 0, 0, 82, 148>>
cfg_ubx_only == <<181, 98, 6, 0, 20, 0, 4, 0, 0, 0, 0, 50, 0, 0, 0,
                  0, 0, 0, 1, 0, 1, 0, 0, 0, 0, 0, 82, 148>>

config_navpt_on == <<181, 98, 6, 1, 8, 0, 1, 7, 0, 0, 0, 0, 1, 0, 24, 222>>

config_rate_4x2hz == <<181, 98, 6, 8, 6, 0, 250, 0, 2, 0, 0, 0, 16, 152>>

\* the 2x1 payload with the checksum bytes of the 4x2 frame left in place
config_rate_2x1hz_stale == <<181, 98, 6, 8, 6, 0, 244, 1, 2, 0, 0, 0, 16, 152>>
config_rate_2x1hz == <<181, 98, 6, 8, 6, 0, 244, 1, 2, 0, 0, 0, 11, 121>>

FixedFrames == {pollNavPVT, pollRate, cfg_ubx_only, config_navpt_on,
                config_rate_4x2hz, config_rate_2x1hz}

\* class, id, length and payload of a frame: all but the two sync bytes and
\* the two trailing checksum bytes
FrameBody(f) == SubSeq(f, 3, Len(f) - 2)

(***************************************************************************)
(* The state of main before any thread exists (main.c 130-143)             *)
(***************************************************************************)

\* sizeof(navpvt_data): the size of the container malloc'ed for each slot's payload
PayloadCap == 92

\* what malloc'ed memory may hold before it is first written
HeapFill == {0, 170}

\* an incomingUBX and its payload container as malloc leaves them, every byte g.
\* sync1 and sync2 are never read or written and are left out.
FreshSlot(g) ==
  [msgCls |-> g, msgID |-> g, msgLen |-> g + 256 * g,
   payload |-> [i \in 1..PayloadCap |-> g], ck_a |-> g, ck_b |-> g]

Slot == {"front", "back"}

\* the exchange with no thread started and nothing received
XchgIdle ==
  /\ rx = <<>>
  /\ slots = [b \in Slot |-> FreshSlot(0)]
  /\ overrun = FALSE
  /\ isRunning = TRUE
  /\ bufferLock = "uninit"
  /\ gpsPc = "none"
  /\ currentBuffer = "front"
  /\ useFrontBuffer = TRUE
  /\ idleQueue = <<>>
  /\ devNoise = <<>>
  /\ devFrames = <<>>
  /\ emitted = <<>>
  /\ writeLog = <<>>
  /\ handedLog = <<>>

\* calculateUBXChecksum not running
CkIdle == ckMsg = <<>> /\ ckI = 0 /\ ckA = 0 /\ ckB = 0 /\ ckPc = "none"

\* the GTK main loop not running, navpvt still the null pointer of a global
GuiIdle ==
  /\ guiPc = "none"
  /\ guiData = FALSE
  /\ navpvt = "null"
  /\ drawPending = FALSE
  /\ guiLat = 0
  /\ guiLon = 0

\* main not running
MainIdle ==
  /\ mainPc = "none" /\ tx = <<>> /\ acks = <<>> /\ polls = <<>>
  /\ pressurePc = "none" /\ guiRunning = "null"

(***************************************************************************)
(* calculateUBXChecksum (guiTest/checksum_maker.c)                         *)
(***************************************************************************)

MaxCkLen == 3

CkBytes == {0, 1, 127, 128, 255}

\* the bytes of section 8 of the specification: 06 08 06 00 FA 00 02 00 00 00
CkTestVector == <<6, 8, 6, 0, 250, 0, 2, 0, 0, 0>>

SeqsUpTo(S, n) == UNION {[1..k -> S] : k \in 0..n}

CkInputs == SeqsUpTo(CkBytes, MaxCkLen) \cup {FrameBody(f) : f \in FixedFrames}
              \cup {CkTestVector}

\* the function as a whole: the pair <<ck_a, ck_b>> after the loop
calculateUBXChecksum(msg) ==
  LET RECURSIVE go(_, _, _)
      go(i, a, b) == IF i >= Len(msg) THEN <<a, b>>
                     ELSE go(i + 1, U8Add(a, msg[i + 1]),
                             U8Add(b, U8Add(a, msg[i + 1])))
  IN  go(0, 0, 0)

CkInit ==
  /\ XchgIdle
  /\ GuiIdle
  /\ MainIdle
  /\ ckMsg \in CkInputs
  /\ ckI = 0
  /\ ckA = 0
  /\ ckB = 0
  /\ ckPc = "loop"

\* one iteration of the for loop
CkLoop ==
  /\ ckPc = "loop"
  /\ ckI < Len(ckMsg)
  /\ ckA' = U8Add(ckA, ckMsg[ckI + 1])
  /\ ckB' = U8Add(ckB, ckA')
  /\ ckI' = ckI + 1
  /\ UNCHANGED <<ckMsg, ckPc, xchgVars, guiVars, suVars>>

\* the loop condition fails: the function returns
CkReturn ==
  /\ ckPc = "loop"
  /\ ckI = Len(ckMsg)
  /\ ckPc' = "done"
  /\ UNCHANGED <<ckMsg, ckI, ckA, ckB, xchgVars, guiVars, suVars>>

NextChecksum == CkLoop \/ CkReturn

SpecChecksum == CkInit /\ [][NextChecksum]_vars

\* C1: calculateUBXChecksum starts ckA and ckB at 0 and adds each byte b as
\* ckA = (ckA + b) mod 256, ckB = (ckB + ckA) mod 256: after i bytes ckA is the
\* sum of the first i bytes mod 256 and ckB the sum of the i running sums mod 256,
\* and the result agrees with the function taken as a whole; on
\* 06 08 06 00 FA 00 02 00 00 00 the result is ckA = 0x10, ckB = 0x98.
C1_Checksum ==
  /\ ckA = SeqSum(ckMsg, ckI) % 256
  /\ ckB = SeqWeightedSum(ckMsg, ckI) % 256
  /\ ckPc = "done" => <<ckA, ckB>> = calculateUBXChecksum(ckMsg)
  /\ (ckPc = "done" /\ ckMsg = CkTestVector) => (ckA = 16 /\ ckB = 152)

C1_Witness == ckPc = "done" /\ ckMsg = CkTestVector /\ ckA = 16 /\ ckB = 152

\* C2: for each of the six fixed outbound frames, the two trailing bytes of the
\* frame are the checksum computed over its class, id, length and payload bytes.
C2_BakedChecksums ==
  \A f \in FixedFrames :
    (ckPc = "done" /\ ckMsg = FrameBody(f)) =>
      (ckA = f[Len(f) - 1] /\ ckB = f[Len(f)])

C2_Witness == ckPc = "done" /\ ckMsg = FrameBody(cfg_ubx_only) /\ ckB = 148

(***************************************************************************)
(* The transport and the frame envelope                                    *)
(***************************************************************************)

HEADER1 == 181

HEADER2 == 98

\* a window that already holds the first sync byte
HeaderInitHalf == HEADER1

\* uint16_t header = 0xFFFF
HeaderInit == 65535

\* while (header != 0xB562)
HeaderSync == 46434

\* header = (header << 8) | bcm2835_spi_transfer(0xFF), stored in a uint16_t
ShiftIn(header, b) == (header * 256 + b) % 65536

\* The seeking loop on the pending bytes s: the number of bytes it reads until
\* header = 0xB562, or -1 when s ends first (the loop is still reading).
SeekLen(s) ==
  LET RECURSIVE go(_, _)
      go(h, n) == IF h = HeaderSync THEN n
                  ELSE IF n >= Len(s) THEN -1
                  ELSE go(ShiftIn(h, s[n + 1]), n + 1)
  IN  go(HeaderInit, 0)

\* msgLen = b0; msgLen |= b1 << 8
LE16Swapped(b0, b1) == b1 + 256 * b0
LE16(b0, b1) == b0 + 256 * b1

DropSkip(s, n) == SubSeq(s, n + 2, Len(s))
\* the bytes of s left after n of them have been read
Drop(s, n) == SubSeq(s, n + 1, Len(s))

Min(a, b) == IF a < b THEN a ELSE b

\* a frame as the device builds it: sync, class, id, length, payload, checksum
MkFrame(cls, id, payload) ==
  LET body == <<cls, id, Len(payload) % 256, Len(payload) \div 256>> \o payload
      ck   == UbxChecksum(body)
  IN  <<HEADER1, HEADER2>> \o body \o <<ck[1], ck[2]>>

\* the same frame with its two checksum bytes flipped (every bit inverted)
Corrupt(f) ==
  [i \in 1..Len(f) |-> IF i >= Len(f) - 1 THEN 255 - f[i] ELSE f[i]]

FrameCls(f) == f[3]
FrameId(f) == f[4]
FramePayload(f) == SubSeq(f, 7, Len(f) - 2)

\* what readUBX leaves in a slot for frame f: the fields and the first msgLen
\* bytes of the payload container
FrameImage(f) ==
  [msgCls |-> f[3], msgID |-> f[4], msgLen |-> Len(f) - 8,
   payload |-> FramePayload(f), ck_a |-> f[Len(f) - 1], ck_b |-> f[Len(f)]]

SlotImage(m) ==
  [msgCls |-> m.msgCls, msgID |-> m.msgID, msgLen |-> m.msgLen,
   payload |-> SubSeq(m.payload, 1, Min(m.msgLen, PayloadCap)),
   ck_a |-> m.ck_a, ck_b |-> m.ck_b]

RECURSIVE Flatten(_)
Flatten(fs) == IF fs = <<>> THEN <<>> ELSE Head(fs) \o Flatten(Tail(fs))

\* s holds the byte a immediately followed by the byte b
HasPair(s, a, b) == \E i \in 1..(Len(s) - 1) : s[i] = a /\ s[i + 1] = b

(***************************************************************************)
(* startGPS and readUBX (gps_setup.c), one action per step of the thread   *)
(***************************************************************************)

\* offset of navpvt_data.lat: readUBX's payload transfer is observed by the GUI
\* thread before and after it reaches this byte
LatOffset == 28

\* a fault in the GTK thread or in the pressure thread ("segv") or main's
\* return ("exit" after a failed pthread_create, "return" at its end) ends the
\* process: no thread takes another step
ProcessAlive ==
  /\ guiPc # "segv" /\ pressurePc # "segv"
  /\ mainPc \notin {"exit", "return"}

\* while (atomic_load(gpsRunning))
startGPS_while ==
  /\ gpsPc = "while"
  /\ ProcessAlive
  /\ gpsPc' = IF isRunning THEN "lock" ELSE "return"
  /\ UNCHANGED <<rx, slots, overrun, isRunning, bufferLock, currentBuffer,
                 useFrontBuffer, idleQueue, devNoise, devFrames, emitted, writeLog, handedLog,
                 ckVars, guiVars, suVars>>

\* pthread_mutex_lock(&buffers->bufferLock)
startGPS_lock ==
  /\ gpsPc = "lock"
  /\ ProcessAlive
  /\ bufferLock = "free"
  /\ bufferLock' = "gps"
  /\ gpsPc' = "seek"
  /\ UNCHANGED <<rx, slots, overrun, isRunning, currentBuffer,
                 useFrontBuffer, idleQueue, devNoise, devFrames, emitted, writeLog, handedLog,
                 ckVars, guiVars, suVars>>

\* readUBX: the seeking loop, then msgCls, msgID and the two length bytes
readUBX_envelope ==
  /\ gpsPc = "seek"
  /\ ProcessAlive
  /\ LET n == SeekLen(rx) IN
       /\ n >= 0
       /\ Len(rx) >= n + 4
       /\ slots' = [slots EXCEPT ![currentBuffer] =
                      [@ EXCEPT !.msgCls = rx[n + 1], !.msgID = rx[n + 2],
                                !.msgLen = LE16(rx[n + 3], rx[n + 4])]]
       /\ rx' = Drop(rx, n + 4)
  /\ gpsPc' = "memset"
  /\ UNCHANGED <<overrun, isRunning, bufferLock, currentBuffer,
                 useFrontBuffer, idleQueue, devNoise, devFrames, emitted, writeLog, handedLog,
                 ckVars, guiVars, suVars>>

\* readUBX: memset(msg->payload, 0xFF, msg->msgLen)
readUBX_memset ==
  /\ gpsPc = "memset"
  /\ ProcessAlive
  /\ LET len == slots[currentBuffer].msgLen IN
       /\ slots' = [slots EXCEPT ![currentBuffer].payload =
                      [i \in 1..PayloadCap |-> IF i <= len THEN 255 ELSE @[i]]]
       /\ overrun' = (overrun \/ len > PayloadCap)
  /\ gpsPc' = "payload"
  /\ UNCHANGED <<rx, isRunning, bufferLock, currentBuffer,
                 useFrontBuffer, idleQueue, devNoise, devFrames, emitted, writeLog, handedLog,
                 ckVars, guiVars, suVars>>

\* bytes from..to (0-based, to exclusive) of the payload transfer: the bytes are
\* stored at the same offsets of the container, those past its end are lost
StoreChunk(old, from, to) ==
  [i \in 1..PayloadCap |-> IF i > from /\ i <= to THEN rx[i - from] ELSE old[i]]

\* readUBX: bcm2835_spi_transfern(msg->payload, msg->msgLen), up to the latitude
readUBX_payload ==
  /\ gpsPc = "payload"
  /\ ProcessAlive
  /\ LET k == Min(slots[currentBuffer].msgLen, LatOffset) IN
       /\ Len(rx) >= k
       /\ slots' = [slots EXCEPT ![currentBuffer].payload = StoreChunk(@, 0, k)]
       /\ rx' = Drop(rx, k)
  /\ gpsPc' = "payload2"
  /\ UNCHANGED <<overrun, isRunning, bufferLock, currentBuffer,
                 useFrontBuffer, idleQueue, devNoise, devFrames, emitted, writeLog, handedLog,
                 ckVars, guiVars, suVars>>

\* readUBX: the rest of the payload transfer, from the latitude on
readUBX_payload2 ==
  /\ gpsPc = "payload2"
  /\ ProcessAlive
  /\ LET len == slots[currentBuffer].msgLen
         k   == Min(len, LatOffset)
     IN
       /\ Len(rx) >= len - k
       /\ slots' = [slots EXCEPT ![currentBuffer].payload = StoreChunk(@, k, len)]
       /\ rx' = Drop(rx, len - k)
  /\ gpsPc' = "checksum"
  /\ UNCHANGED <<overrun, isRunning, bufferLock, currentBuffer,
                 useFrontBuffer, idleQueue, devNoise, devFrames, emitted, writeLog, handedLog,
                 ckVars, guiVars, suVars>>

\* readUBX: ck_a and ck_b are read and stored; nothing is compared
readUBX_checksum ==
  /\ gpsPc = "checksum"
  /\ ProcessAlive
  /\ Len(rx) >= 2
  /\ slots' = [slots EXCEPT ![currentBuffer] =
                 [@ EXCEPT !.ck_a = rx[1], !.ck_b = rx[2]]]
  /\ rx' = Drop(rx, 2)
  /\ emitted' = Append(emitted, SlotImage(slots'[currentBuffer]))
  /\ writeLog' = Append(writeLog, currentBuffer)
  /\ gpsPc' = "unlock"
  /\ UNCHANGED <<overrun, isRunning, bufferLock, currentBuffer,
                 useFrontBuffer, idleQueue, devNoise, devFrames, handedLog,
                 ckVars, guiVars, suVars>>

\* pthread_mutex_unlock(&buffers->bufferLock)
startGPS_unlock ==
  /\ gpsPc = "unlock"
  /\ ProcessAlive
  /\ bufferLock' = "free"
  /\ gpsPc' = "print"
  /\ UNCHANGED <<rx, slots, overrun, isRunning, currentBuffer,
                 useFrontBuffer, idleQueue, devNoise, devFrames, emitted, writeLog, handedLog,
                 ckVars, guiVars, suVars>>

\* navpvt = currentBuffer->payload; printf("LAT: %d, LON: %d\n", ...)
startGPS_print ==
  /\ gpsPc = "print"
  /\ ProcessAlive
  /\ gpsPc' = "flip"
  /\ UNCHANGED <<rx, slots, overrun, isRunning, bufferLock, currentBuffer,
                 useFrontBuffer, idleQueue, devNoise, devFrames, emitted, writeLog, handedLog,
                 ckVars, guiVars, suVars>>

\* the same step with the slot left as it is
startGPS_noflip ==
  /\ gpsPc = "flip"
  /\ ProcessAlive
  /\ useFrontBuffer' = ~useFrontBuffer
  /\ gpsPc' = "idle_add"
  /\ UNCHANGED <<rx, slots, overrun, isRunning, bufferLock, currentBuffer,
                 idleQueue, devNoise, devFrames, emitted, writeLog, handedLog,
                 ckVars, guiVars, suVars>>

\* if (useFrontBuffer) { currentBuffer = bBuffer; useFrontBuffer = false; }
\* else { currentBuffer = fBuffer; useFrontBuffer = true; }
startGPS_flip ==
  /\ gpsPc = "flip"
  /\ ProcessAlive
  /\ currentBuffer' = IF useFrontBuffer THEN "back" ELSE "front"
  /\ useFrontBuffer' = ~useFrontBuffer
  /\ gpsPc' = "idle_add"
  /\ UNCHANGED <<rx, slots, overrun, isRunning, bufferLock,
                 idleQueue, devNoise, devFrames, emitted, writeLog, handedLog,
                 ckVars, guiVars, suVars>>

\* g_idle_add(updateGPSLabels, GINT_TO_POINTER(atomic_load(&useFrontBuffer)))
startGPS_idle_add ==
  /\ gpsPc = "idle_add"
  /\ ProcessAlive
  /\ idleQueue' = Append(idleQueue, useFrontBuffer)
  /\ handedLog' = Append(handedLog, useFrontBuffer)
  /\ gpsPc' = "usleep"
  /\ UNCHANGED <<rx, slots, overrun, isRunning, bufferLock, currentBuffer,
                 useFrontBuffer, devNoise, devFrames, emitted, writeLog,
                 ckVars, guiVars, suVars>>

\* usleep(900000), then back to the loop condition
startGPS_usleep ==
  /\ gpsPc = "usleep"
  /\ ProcessAlive
  /\ gpsPc' = "while"
  /\ UNCHANGED <<rx, slots, overrun, isRunning, bufferLock, currentBuffer,
                 useFrontBuffer, idleQueue, devNoise, devFrames, emitted, writeLog, handedLog,
                 ckVars, guiVars, suVars>>

startGPS ==
  \/ startGPS_while
  \/ startGPS_lock
  \/ readUBX_envelope
  \/ readUBX_memset
  \/ readUBX_payload
  \/ readUBX_payload2
  \/ readUBX_checksum
  \/ startGPS_unlock
  \/ startGPS_print
  \/ startGPS_flip
  \/ startGPS_idle_add
  \/ startGPS_usleep

\* the GPS thread is inside a transport read that the pending bytes cannot
\* complete: it stays there until the device sends more
ReaderStarved ==
  \/ gpsPc = "seek" /\ (SeekLen(rx) < 0 \/ Len(rx) < SeekLen(rx) + 4)
  \/ gpsPc = "payload" /\ Len(rx) < Min(slots[currentBuffer].msgLen, LatOffset)
  \/ gpsPc = "payload2" /\ Len(rx) < slots[currentBuffer].msgLen
                                      - Min(slots[currentBuffer].msgLen, LatOffset)
  \/ gpsPc = "checksum" /\ Len(rx) < 2

(***************************************************************************)
(* The GPS thread alone on a finite byte stream                            *)
(***************************************************************************)

MaxNoise == 3

MaxStreamFrames == 3

NoiseBytes == {HEADER1, HEADER2, 255}

\* two well-formed frames, the second with the sync pattern inside its payload
StreamFrames == {MkFrame(1, 7, <<3, 4>>), MkFrame(6, 8, <<HEADER1, HEADER2, 9>>)}

\* the checksum of f's class, id, length and payload is what f carries
FrameValid(f) ==
  <<f[Len(f) - 1], f[Len(f)]>> = UbxChecksum(FrameBody(f))

DeviceFrames == StreamFrames \cup {Corrupt(f) : f \in StreamFrames}

\* Noise followed by one frame, or up to MaxStreamFrames frames back to back.
ReaderInit ==
  /\ CkIdle
  /\ GuiIdle
  /\ MainIdle
  /\ \E g \in HeapFill : slots = [b \in Slot |-> FreshSlot(g)]
  /\ \/ /\ devNoise \in SeqsUpTo(NoiseBytes, MaxNoise)
        /\ devFrames \in [1..1 -> DeviceFrames]
     \/ /\ devNoise = <<>>
        /\ devFrames \in UNION {[1..k -> DeviceFrames] : k \in 2..MaxStreamFrames}
  /\ rx = devNoise \o Flatten(devFrames)
  /\ overrun = FALSE
  /\ isRunning = TRUE
  /\ bufferLock = "free"
  /\ gpsPc = "while"
  /\ currentBuffer = "front"
  /\ useFrontBuffer = TRUE
  /\ idleQueue = <<>>
  /\ emitted = <<>>
  /\ writeLog = <<>>
  /\ handedLog = <<>>

NextReader == startGPS

SpecReader == ReaderInit /\ [][NextReader]_vars

\* the stream is noise, then the sync pattern and one complete valid frame
OneFrameStream == Len(devFrames) = 1 /\ FrameValid(devFrames[1])

\* the reader has emitted exactly the frame of the stream and seeks again
OneFrameOutcome ==
  /\ Len(emitted) <= 1
  /\ emitted # <<>> => emitted[1] = FrameImage(devFrames[1])
  /\ ReaderStarved =>
       (emitted = <<FrameImage(devFrames[1])>> /\ gpsPc = "seek" /\ rx = <<>>)

CorruptedMiddleStream ==
  /\ devNoise = <<>>
  /\ Len(devFrames) = 3
  /\ FrameValid(devFrames[1])
  /\ ~FrameValid(devFrames[2])
  /\ FrameValid(devFrames[3])

\* C5: a valid frame, then a frame whose checksum bytes are flipped, then a valid
\* frame: exactly two frames are emitted and published, the first and the third;
\* the corrupted one is discarded and the third is parsed at its correct offsets.
C5_CorruptionRecovery ==
  CorruptedMiddleStream =>
    /\ \A i \in 1..Len(emitted) : emitted[i] # FrameImage(devFrames[2])
    /\ Len(emitted) <= 2 /\ Len(idleQueue) <= 2
    /\ ReaderStarved =>
         /\ emitted = <<FrameImage(devFrames[1]), FrameImage(devFrames[3])>>
         /\ Len(idleQueue) = 2

(***************************************************************************)
(* The fix record and the GTK main loop (gui_setup.c)                      *)
(***************************************************************************)

\* offset of navpvt_data.lon
LonOffset == 24

\* an int32_t field read from the payload bytes at offset off (little-endian,
\* two's complement), as navpvt->lat and navpvt->lon read it
S32(p, off) ==
  p[off + 1] + 256 * p[off + 2] + 65536 * p[off + 3]
    + 16777216 * (IF p[off + 4] >= 128 THEN p[off + 4] - 256 ELSE p[off + 4])

\* the four bytes of an int32_t, as the device puts them on the wire
S32Bytes(v) ==
  <<v % 256, (v \div 256) % 256, (v \div 65536) % 256, (v \div 16777216) % 256>>

\* a NAV-PVT frame (class 0x01, id 0x07, 92 payload bytes) with the given
\* longitude and latitude and every other field zero
NavPvtFrame(lon, lat) ==
  MkFrame(1, 7,
          [i \in 1..PayloadCap |->
             IF i > LonOffset /\ i <= LonOffset + 4 THEN S32Bytes(lon)[i - LonOffset]
             ELSE IF i > LatOffset /\ i <= LatOffset + 4 THEN S32Bytes(lat)[i - LatOffset]
             ELSE 0])

FrameLon(f) == S32(FramePayload(f), LonOffset)
FrameLat(f) == S32(FramePayload(f), LatOffset)

\* useFirstBuffer ? guiFrontBuffer->payload : guiBackBuffer->payload
SelSlot(sel) == IF sel THEN "front" ELSE "back"

\* the same dispatch for a callback that returned G_SOURCE_CONTINUE: the source
\* stays pending
gui_dispatch_continue ==
  /\ guiPc = "idle"
  /\ ProcessAlive
  /\ idleQueue # <<>>
  /\ guiData' = Head(idleQueue)
  /\ guiPc' = "u_lock"
  /\ UNCHANGED <<navpvt, drawPending, guiLat, guiLon>>
  /\ UNCHANGED <<xchgVars, ckVars, suVars>>

\* the GLib main loop runs the next pending idle source; updateGPSLabels
\* returns G_SOURCE_REMOVE, so the source is gone once dispatched
gui_dispatch ==
  /\ guiPc = "idle"
  /\ ProcessAlive
  /\ idleQueue # <<>>
  /\ guiData' = Head(idleQueue)
  /\ idleQueue' = Tail(idleQueue)
  /\ guiPc' = "u_lock"
  /\ UNCHANGED <<navpvt, drawPending, guiLat, guiLon>>
  /\ UNCHANGED <<rx, slots, overrun, isRunning, bufferLock, gpsPc, currentBuffer,
                 useFrontBuffer, devNoise, devFrames, emitted, writeLog, handedLog,
                 ckVars, suVars>>

\* updateGPSLabels: pthread_mutex_lock(&guiBufferStruct->bufferLock)
updateGPSLabels_lock ==
  /\ guiPc = "u_lock"
  /\ ProcessAlive
  /\ bufferLock = "free"
  /\ bufferLock' = "gui"
  /\ guiPc' = "u_assign"
  /\ UNCHANGED <<guiData, navpvt, drawPending, guiLat, guiLon>>
  /\ UNCHANGED <<rx, slots, overrun, isRunning, gpsPc, currentBuffer, idleQueue,
                 useFrontBuffer, devNoise, devFrames, emitted, writeLog, handedLog,
                 ckVars, suVars>>

\* updateGPSLabels: navpvt = useFirstBuffer ? front payload : back payload
updateGPSLabels_assign ==
  /\ guiPc = "u_assign"
  /\ ProcessAlive
  /\ navpvt' = SelSlot(guiData)
  /\ guiPc' = "u_unlock"
  /\ UNCHANGED <<guiData, drawPending, guiLat, guiLon>>
  /\ UNCHANGED <<xchgVars, ckVars, suVars>>

\* updateGPSLabels: pthread_mutex_unlock
updateGPSLabels_unlock ==
  /\ guiPc = "u_unlock"
  /\ ProcessAlive
  /\ bufferLock' = "free"
  /\ guiPc' = "u_labels"
  /\ UNCHANGED <<guiData, navpvt, drawPending, guiLat, guiLon>>
  /\ UNCHANGED <<rx, slots, overrun, isRunning, gpsPc, currentBuffer, idleQueue,
                 useFrontBuffer, devNoise, devFrames, emitted, writeLog, handedLog,
                 ckVars, suVars>>

\* updateGPSLabels: the speed, time, latitude and longitude labels are set from
\* navpvt, then gtk_widget_queue_draw(guiWindow.mapArea)
updateGPSLabels_labels ==
  /\ guiPc = "u_labels"
  /\ ProcessAlive
  /\ drawPending' = TRUE
  /\ guiPc' = "u_lat"
  /\ UNCHANGED <<guiData, navpvt, guiLat, guiLon>>
  /\ UNCHANGED <<xchgVars, ckVars, suVars>>

\* updateGPSLabels: double lat = navpvt->lat / 1e7
updateGPSLabels_lat ==
  /\ guiPc = "u_lat"
  /\ ProcessAlive
  /\ guiLat' = S32(slots[navpvt].payload, LatOffset)
  /\ guiPc' = "u_lon"
  /\ UNCHANGED <<guiData, navpvt, drawPending, guiLon>>
  /\ UNCHANGED <<xchgVars, ckVars, suVars>>

\* updateGPSLabels: double lon = navpvt->lon / 1e7
updateGPSLabels_lon ==
  /\ guiPc = "u_lon"
  /\ ProcessAlive
  /\ guiLon' = S32(slots[navpvt].payload, LonOffset)
  /\ guiPc' = "u_scroll"
  /\ UNCHANGED <<guiData, navpvt, drawPending, guiLat>>
  /\ UNCHANGED <<xchgVars, ckVars, suVars>>

\* updateGPSLabels: x and y are computed from lat and lon, the scrolled window
\* is centred on them, return G_SOURCE_REMOVE
updateGPSLabels_scroll ==
  /\ guiPc = "u_scroll"
  /\ ProcessAlive
  /\ guiPc' = "idle"
  /\ UNCHANGED <<guiData, navpvt, drawPending, guiLat, guiLon>>
  /\ UNCHANGED <<xchgVars, ckVars, suVars>>

\* GTK queues a draw of the map area on its own account: the first display of
\* the window, a scroll, an expose
gui_expose ==
  /\ guiPc = "idle"
  /\ ProcessAlive
  /\ ~drawPending
  /\ drawPending' = TRUE
  /\ UNCHANGED <<guiPc, guiData, navpvt, guiLat, guiLon>>
  /\ UNCHANGED <<xchgVars, ckVars, suVars>>

\* draw_map_and_marker: testMap.png is loaded (return FALSE if it cannot be) and
\* painted; the next statement reads navpvt->lat, which faults while navpvt is null
draw_map_and_marker_map ==
  /\ guiPc = "idle"
  /\ ProcessAlive
  /\ drawPending
  /\ drawPending' = FALSE
  /\ \E map \in BOOLEAN :
       guiPc' = IF ~map THEN "idle" ELSE IF navpvt = "null" THEN "segv" ELSE "d_lat"
  /\ UNCHANGED <<guiData, navpvt, guiLat, guiLon>>
  /\ UNCHANGED <<xchgVars, ckVars, suVars>>

\* draw_map_and_marker: double lat = navpvt->lat / 1e7
draw_map_and_marker_lat ==
  /\ guiPc = "d_lat"
  /\ ProcessAlive
  /\ guiLat' = S32(slots[navpvt].payload, LatOffset)
  /\ guiPc' = "d_lon"
  /\ UNCHANGED <<guiData, navpvt, drawPending, guiLon>>
  /\ UNCHANGED <<xchgVars, ckVars, suVars>>

\* draw_map_and_marker: double lon = navpvt->lon / 1e7
draw_map_and_marker_lon ==
  /\ guiPc = "d_lon"
  /\ ProcessAlive
  /\ guiLon' = S32(slots[navpvt].payload, LonOffset)
  /\ guiPc' = "d_icon"
  /\ UNCHANGED <<guiData, navpvt, drawPending, guiLat>>
  /\ UNCHANGED <<xchgVars, ckVars, suVars>>

\* draw_map_and_marker: the marker is painted at x, y; return FALSE
draw_map_and_marker_icon ==
  /\ guiPc = "d_icon"
  /\ ProcessAlive
  /\ guiPc' = "idle"
  /\ UNCHANGED <<guiData, navpvt, drawPending, guiLat, guiLon>>
  /\ UNCHANGED <<xchgVars, ckVars, suVars>>

updateGPSLabels ==
  \/ updateGPSLabels_lock
  \/ updateGPSLabels_assign
  \/ updateGPSLabels_unlock
  \/ updateGPSLabels_labels
  \/ updateGPSLabels_lat
  \/ updateGPSLabels_lon
  \/ updateGPSLabels_scroll

draw_map_and_marker ==
  \/ draw_map_and_marker_map
  \/ draw_map_and_marker_lat
  \/ draw_map_and_marker_lon
  \/ draw_map_and_marker_icon

(***************************************************************************)
(* The GPS thread and the GTK main loop together, the device sending fixes *)
(***************************************************************************)

MaxFixes == 3

\* the k-th fix the device sends: longitude -k, latitude k (1e-7 degrees)
Fix(k) == NavPvtFrame(0 - k, k)

\* the device sends its next fix once the previous one has been read
device_fix ==
  /\ ProcessAlive
  /\ Len(devFrames) < MaxFixes
  /\ rx = <<>>
  /\ rx' = Fix(Len(devFrames) + 1)
  /\ devFrames' = Append(devFrames, Fix(Len(devFrames) + 1))
  /\ UNCHANGED <<slots, overrun, isRunning, bufferLock, gpsPc, currentBuffer,
                 useFrontBuffer, idleQueue, devNoise, emitted, writeLog, handedLog,
                 ckVars, guiVars, suVars>>

\* main has created the GPS thread and is in gtk_main (startGUI)
ExchangeInit ==
  /\ CkIdle
  /\ mainPc = "gtk_main" /\ tx = <<>> /\ acks = <<>> /\ polls = <<>>
  /\ pressurePc = "while" /\ guiRunning = "set"
  /\ \E g \in HeapFill : slots = [b \in Slot |-> FreshSlot(g)]
  /\ rx = <<>>
  /\ overrun = FALSE
  /\ isRunning = TRUE
  /\ bufferLock = "free"
  /\ gpsPc = "while"
  /\ currentBuffer = "front"
  /\ useFrontBuffer = TRUE
  /\ idleQueue = <<>>
  /\ devNoise = <<>>
  /\ devFrames = <<>>
  /\ emitted = <<>>
  /\ writeLog = <<>>
  /\ handedLog = <<>>
  /\ guiPc = "idle"
  /\ guiData = FALSE
  /\ navpvt = "null"
  /\ drawPending = FALSE
  /\ guiLat = 0
  /\ guiLon = 0

NextExchange ==
  \/ startGPS
  \/ device_fix
  \/ gui_dispatch
  \/ updateGPSLabels
  \/ gui_expose
  \/ draw_map_and_marker

SpecExchange == ExchangeInit /\ [][NextExchange]_vars

\* the GTK thread has read a latitude and a longitude to use together
\* (updateGPSLabels 357-358, draw_map_and_marker 202-203)
PairRead == guiPc \in {"u_scroll", "d_icon"}

\* C6: the latitude and the longitude the consumer uses together come from the
\* same received frame: never a latitude from one frame paired with a longitude
\* from another.
C6_NoTornReads ==
  PairRead =>
    ~ \E i, j \in 1..Len(devFrames) :
        /\ i # j
        /\ guiLat = FrameLat(devFrames[i])
        /\ guiLon = FrameLon(devFrames[j])

\* C7: every selector handed to updateGPSLabels designates a slot into which a
\* complete frame has already been written, the first callback included.
C7_HandedSlotWritten ==
  \A k \in 1..Len(handedLog) :
    \E j \in 1..Len(writeLog) : j <= k /\ writeLog[j] = SelSlot(handedLog[k])

\* C8: after each producer iteration the selector handed to the consumer
\* designates the slot this iteration has just written, and the next write goes
\* to the other slot.
C8_HandedIsJustWritten ==
  /\ \A k \in 1..Len(handedLog) : SelSlot(handedLog[k]) = writeLog[k]
  /\ \A k \in 1..(Len(writeLog) - 1) : writeLog[k + 1] # writeLog[k]
  /\ gpsPc \in {"usleep", "while", "lock", "seek"} /\ writeLog # <<>> =>
       currentBuffer # writeLog[Len(writeLog)]

(***************************************************************************)
(* readACKResponse, readPollResponse and the decoders (gps_setup.c)        *)
(***************************************************************************)

\* what an out-of-bounds read of a stack array may return
StackFill == {0, 255}

\* payload[i] of an array that holds the bytes p: past its end the read returns
\* whatever the stack holds there (g)
At(p, i, g) == IF i < Len(p) THEN p[i + 1] ELSE g

\* readACKResponse on the pending bytes s. blocked: the bytes end before the
\* function has read all it asks for. used: the number of bytes read.
readACKResponse(s) ==
  LET n == SeekLen(s) IN
  IF n < 0 \/ Len(s) < n + 4 THEN [blocked |-> TRUE]
  ELSE
    LET cls  == s[n + 1]
        id   == s[n + 2]
        lenL == s[n + 3]
        lenH == s[n + 4]
        two  == (LE16(lenL, lenH) = 2)
        m    == IF two THEN n + 6 ELSE n + 4
    IN
    IF Len(s) < m + 2 THEN [blocked |-> TRUE]
    ELSE
      LET payload == IF two THEN <<s[n + 5], s[n + 6]>> ELSE <<255, 255>> IN
      [blocked |-> FALSE, used |-> m + 2,
       ck_a |-> s[m + 1], ck_b |-> s[m + 2],
       kind |-> IF cls = 5 /\ id = 1 THEN "ACK"
                ELSE IF cls = 5 /\ id = 0 THEN "NACK"
                ELSE "Unexpected",
       cls |-> IF cls = 5 /\ id \in {0, 1} THEN payload[1] ELSE cls,
       id  |-> IF cls = 5 /\ id \in {0, 1} THEN payload[2] ELSE id]

\* checkRateSettings: three little-endian uint16_t at payload[0..5]
checkRateSettingsBE(payload, g) ==
  [decoder  |-> "checkRateSettings",
   measRate |-> At(payload, 1, g) + 256 * At(payload, 0, g),
   navRate  |-> At(payload, 3, g) + 256 * At(payload, 2, g),
   timeRef  |-> At(payload, 5, g) + 256 * At(payload, 4, g),
   timeRefName |-> IF At(payload, 5, g) + 256 * At(payload, 4, g) = 0
                   THEN "UTC" ELSE "GPS time"]
checkRateSettings(payload, g) ==
  [decoder  |-> "checkRateSettings",
   measRate |-> At(payload, 0, g) + 256 * At(payload, 1, g),
   navRate  |-> At(payload, 2, g) + 256 * At(payload, 3, g),
   timeRef  |-> At(payload, 4, g) + 256 * At(payload, 5, g),
   timeRefName |-> IF At(payload, 4, g) + 256 * At(payload, 5, g) = 0
                   THEN "UTC" ELSE "GPS time"]

checkConfigMsgSettingsPort0(payload, g) ==
  LET msgClass == At(payload, 0, g)
      msgID    == At(payload, 1, g)
      rateSPI  == At(payload, 2, g)
  IN  [decoder |-> "checkConfigMsgSettings",
       msgClass |-> msgClass, msgID |-> msgID, rateSPI |-> rateSPI,
       verdict |-> IF msgClass = 1 /\ msgID = 7 /\ rateSPI > 0 THEN "ENABLED"
                   ELSE IF msgClass = 1 /\ msgID = 7 THEN "DISABLED"
                   ELSE "none"]

\* checkConfigMsgSettings: payload[0], payload[1] and payload[6]
checkConfigMsgSettings(payload, g) ==
  LET msgClass == At(payload, 0, g)
      msgID    == At(payload, 1, g)
      rateSPI  == At(payload, 6, g)
  IN  [decoder |-> "checkConfigMsgSettings",
       msgClass |-> msgClass, msgID |-> msgID, rateSPI |-> rateSPI,
       verdict |-> IF msgClass = 1 /\ msgID = 7 /\ rateSPI > 0 THEN "ENABLED"
                   ELSE IF msgClass = 1 /\ msgID = 7 THEN "DISABLED"
                   ELSE "none"]

\* readPollResponse on the pending bytes s (g: what lies behind the payload array)
readPollResponse(s, g) ==
  LET n == SeekLen(s) IN
  IF n < 0 \/ Len(s) < n + 4 THEN [blocked |-> TRUE]
  ELSE
    LET msgCls == s[n + 1]
        msgID  == s[n + 2]
        msgLen == LE16(s[n + 3], s[n + 4])
    IN
    IF Len(s) < n + 4 + msgLen + 2 THEN [blocked |-> TRUE]
    ELSE
      LET payload == SubSeq(s, n + 5, n + 4 + msgLen) IN
      [blocked |-> FALSE, used |-> n + 4 + msgLen + 2,
       msgCls |-> msgCls, msgID |-> msgID, msgLen |-> msgLen, payload |-> payload,
       ck_a |-> s[n + 4 + msgLen + 1], ck_b |-> s[n + 4 + msgLen + 2],
       decoded |-> IF msgCls = 6 /\ msgID = 1 THEN checkConfigMsgSettings(payload, g)
                   ELSE IF msgCls = 6 /\ msgID = 8 THEN checkRateSettings(payload, g)
                   ELSE [decoder |-> "Unrecognized", msgCls |-> msgCls, msgID |-> msgID]]

(***************************************************************************)
(* main: sendConfig, pollModule, thread creation (main.c)                  *)
(***************************************************************************)

\* bcm2835_spi_transfern of a fixed frame, then usleep(10000)
Send(frame, from, to) ==
  /\ mainPc = from
  /\ tx' = Append(tx, frame)
  /\ mainPc' = to
  /\ UNCHANGED <<pressurePc, guiRunning, acks, polls, xchgVars, guiVars, ckVars>>

\* readACKResponse(label), for the command just sent
ReadAck(label, from, to) ==
  /\ mainPc = from
  /\ LET r == readACKResponse(rx) IN
       /\ ~r.blocked
       /\ rx' = Drop(rx, r.used)
       /\ acks' = Append(acks, [label |-> label, kind |-> r.kind,
                                cls |-> r.cls, id |-> r.id])
  /\ mainPc' = to
  /\ UNCHANGED <<pressurePc, guiRunning, tx, polls, slots, overrun, isRunning, bufferLock, gpsPc,
                 currentBuffer, useFrontBuffer, idleQueue, devNoise, devFrames,
                 emitted, writeLog, handedLog, guiVars, ckVars>>

\* readPollResponse(), for the poll just sent
ReadPoll(from, to) ==
  /\ mainPc = from
  /\ \E g \in StackFill :
       LET r == readPollResponse(rx, g) IN
         /\ ~r.blocked
         /\ rx' = Drop(rx, r.used)
         /\ polls' = Append(polls, [msgCls |-> r.msgCls, msgID |-> r.msgID,
                                    msgLen |-> r.msgLen, payload |-> r.payload,
                                    decoded |-> r.decoded])
  /\ mainPc' = to
  /\ UNCHANGED <<pressurePc, guiRunning, tx, acks, slots, overrun, isRunning, bufferLock, gpsPc,
                 currentBuffer, useFrontBuffer, idleQueue, devNoise, devFrames,
                 emitted, writeLog, handedLog, guiVars, ckVars>>

sendConfigSkipRead ==
  \/ Send(cfg_ubx_only, "setProtocol_UBX", "ack_setProtocol_UBX")
  \/ Send(config_rate_2x1hz, "ack_setProtocol_UBX", "ack_setRate_2x1")
  \/ ReadAck("setRate_2x1", "ack_setRate_2x1", "enable_navPVT")
  \/ Send(config_navpt_on, "enable_navPVT", "ack_enable_navPVT")
  \/ ReadAck("enable_navPVT", "ack_enable_navPVT", "pollRate")

sendConfig ==
  \/ Send(cfg_ubx_only, "setProtocol_UBX", "ack_setProtocol_UBX")
  \/ ReadAck("setProtocol_UBX", "ack_setProtocol_UBX", "setRate_2x1")
  \/ Send(config_rate_2x1hz, "setRate_2x1", "ack_setRate_2x1")
  \/ ReadAck("setRate_2x1", "ack_setRate_2x1", "enable_navPVT")
  \/ Send(config_navpt_on, "enable_navPVT", "ack_enable_navPVT")
  \/ ReadAck("enable_navPVT", "ack_enable_navPVT", "pollRate")

pollModule ==
  \/ Send(pollRate, "pollRate", "resp_pollRate")
  \/ ReadPoll("resp_pollRate", "pollNavPVT")
  \/ Send(pollNavPVT, "pollNavPVT", "resp_pollNavPVT")
  \/ ReadPoll("resp_pollNavPVT", "create_gps")

main_create_gps_early ==
  /\ mainPc = "pollRate"
  /\ gpsPc = "none"
  /\ gpsPc' = "while"
  /\ bufferLock' = "free"
  /\ UNCHANGED <<pressurePc, guiRunning, mainPc, tx, acks, polls, rx, slots, overrun, isRunning,
                 currentBuffer, useFrontBuffer, idleQueue, devNoise, devFrames,
                 emitted, writeLog, handedLog, guiVars, ckVars>>

\* pthread_mutex_init; pthread_create(&gps_thread, NULL, startGPS, &buffers):
\* on failure main returns -1
main_create_gps ==
  /\ mainPc = "create_gps"
  /\ \E created \in BOOLEAN :
       /\ gpsPc' = IF created THEN "while" ELSE gpsPc
       /\ mainPc' = IF created THEN "create_pressure" ELSE "exit"
  /\ bufferLock' = "free"
  /\ UNCHANGED <<pressurePc, guiRunning, tx, acks, polls, rx, slots, overrun, isRunning,
                 currentBuffer, useFrontBuffer, idleQueue, devNoise, devFrames,
                 emitted, writeLog, handedLog, guiVars, ckVars>>

\* pthread_create(&pressure_thread, NULL, simulatePressure, NULL)
main_create_pressure ==
  /\ mainPc = "create_pressure"
  /\ \E created \in BOOLEAN :
       /\ pressurePc' = IF created THEN "while" ELSE pressurePc
       /\ mainPc' = IF created THEN "startGUI" ELSE "exit"
  /\ UNCHANGED <<guiRunning, tx, acks, polls, xchgVars, guiVars, ckVars>>

\* startGUI: the globals are set (guiRunning = guiBufferStruct->isRunning among
\* them), gtk_init, initGUI, then gtk_main runs
main_startGUI ==
  /\ mainPc = "startGUI"
  /\ guiRunning' = "set"
  /\ guiPc' = "idle"
  /\ mainPc' = "gtk_main"
  /\ UNCHANGED <<guiData, navpvt, drawPending, guiLat, guiLon>>
  /\ UNCHANGED <<pressurePc, tx, acks, polls, xchgVars, ckVars>>

\* an acknowledgement frame: class 0x05, id 1 (Ack) or 0 (Nack), echoing cls, id
AckFrame(ackId, cls, id) == MkFrame(5, ackId, <<cls, id>>)

\* CFG-MSG for NAV-PVT with every port rate zero
config_navpt_off == MkFrame(6, 1, <<1, 7, 0, 0, 0, 0, 0, 0>>)

\* what the device may answer to a configuration command: an Ack echoing one
\* of the three commands, a Nack, or a CFG-RATE record
AckReplies ==
  {AckFrame(1, 6, 0), AckFrame(1, 6, 8), AckFrame(1, 6, 1),
   AckFrame(0, 6, 0), AckFrame(0, 6, 8), config_rate_4x2hz}

\* what the device may answer to a poll: a CFG-RATE record, a CFG-MSG record,
\* or an acknowledgement
PollReplies ==
  {config_rate_4x2hz, config_rate_2x1hz, config_navpt_on, config_navpt_off,
   AckFrame(1, 6, 8)}

\* main is inside a read that the pending bytes cannot complete
MainStarved ==
  \/ /\ mainPc \in {"ack_setProtocol_UBX", "ack_setRate_2x1", "ack_enable_navPVT"}
     /\ readACKResponse(rx).blocked
  \/ /\ mainPc \in {"resp_pollRate", "resp_pollNavPVT"}
     /\ readPollResponse(rx, 0).blocked

\* the device answers while main waits in a read
device_reply ==
  /\ MainStarved
  /\ \E f \in IF polls = <<>> /\ Len(acks) < 3 THEN AckReplies ELSE PollReplies :
       /\ rx' = rx \o f
       /\ devFrames' = Append(devFrames, f)
  /\ UNCHANGED <<suVars, slots, overrun, isRunning, bufferLock, gpsPc,
                 currentBuffer, useFrontBuffer, idleQueue, devNoise,
                 emitted, writeLog, handedLog, guiVars, ckVars>>

\* main after the SPI set-up (main.c 169), no thread created yet
StartupInit ==
  /\ CkIdle
  /\ GuiIdle
  /\ mainPc = "setProtocol_UBX" /\ tx = <<>> /\ acks = <<>> /\ polls = <<>>
  /\ pressurePc = "none" /\ guiRunning = "null"
  /\ \E g \in HeapFill : slots = [b \in Slot |-> FreshSlot(g)]
  /\ rx = <<>>
  /\ overrun = FALSE
  /\ isRunning = TRUE
  /\ bufferLock = "uninit"
  /\ gpsPc = "none"
  /\ currentBuffer = "front"
  /\ useFrontBuffer = TRUE
  /\ idleQueue = <<>>
  /\ devNoise = <<>>
  /\ devFrames = <<>>
  /\ emitted = <<>>
  /\ writeLog = <<>>
  /\ handedLog = <<>>

NextStartup ==
  \/ sendConfig
  \/ pollModule
  \/ main_create_gps
  \/ main_create_pressure
  \/ main_startGUI
  \/ device_reply

SpecStartup == StartupInit /\ [][NextStartup]_vars

(***************************************************************************)
(* Properties of the start-up sequence                                     *)
(***************************************************************************)

\* the rate record of a fixed frame, as readPollResponse dispatches and
\* checkRateSettings decodes it
RateOf(frame) == readPollResponse(frame, 0).decoded

IsPreset(e, frame) ==
  e.msgCls = FrameCls(frame) /\ e.msgID = FrameId(frame) /\ e.payload = FramePayload(frame)

\* C3: the class, id and payload of the setRate_4x2 frame, put through the
\* poll-response dispatch and checkRateSettings, give measRate 250, navRate 2,
\* timeRef 0 (UTC); those of the setRate_2x1 frame give measRate 500,
\* navRate 2, timeRef 0. Both as a computation on the frames and for every
\* such record main has read from the device.
C3_RateRoundTrip ==
  /\ RateOf(config_rate_4x2hz) =
       [decoder |-> "checkRateSettings", measRate |-> 250, navRate |-> 2,
        timeRef |-> 0, timeRefName |-> "UTC"]
  /\ RateOf(config_rate_2x1hz) =
       [decoder |-> "checkRateSettings", measRate |-> 500, navRate |-> 2,
        timeRef |-> 0, timeRefName |-> "UTC"]
  /\ \A i \in 1..Len(polls) :
       /\ IsPreset(polls[i], config_rate_4x2hz) =>
            /\ polls[i].decoded.decoder = "checkRateSettings"
            /\ polls[i].decoded.measRate = 250
            /\ polls[i].decoded.navRate = 2
            /\ polls[i].decoded.timeRef = 0
       /\ IsPreset(polls[i], config_rate_2x1hz) =>
            /\ polls[i].decoded.decoder = "checkRateSettings"
            /\ polls[i].decoded.measRate = 500
            /\ polls[i].decoded.navRate = 2
            /\ polls[i].decoded.timeRef = 0

\* main has read both presets from the device and decoded them
C3_Witness ==
  /\ Len(polls) = 2
  /\ IsPreset(polls[1], config_rate_4x2hz) /\ polls[1].decoded.measRate = 250
  /\ IsPreset(polls[2], config_rate_2x1hz) /\ polls[2].decoded.measRate = 500

IsNackOf(a, cls, id) == a.kind = "NACK" /\ a.cls = cls /\ a.id = id

\* C9: after set-protocol-filter has been answered by a Nack echoing
\* (0x06,0x00), the next frame sent is the same command again; after a second
\* such Nack nothing further is sent and no poll is made.
C9_NackRetry ==
  (Len(acks) >= 1 /\ IsNackOf(acks[1], 6, 0)) =>
    /\ Len(tx) >= 2 => tx[2] = cfg_ubx_only
    /\ (Len(acks) >= 2 /\ IsNackOf(acks[2], 6, 0)) => (Len(tx) = 2 /\ polls = <<>>)

\* C10: the producer thread exists only if each of the three configuration
\* commands was answered by an Ack.
C10_StreamingOnlyAfterAcks ==
  gpsPc # "none" =>
    /\ Len(acks) = 3
    /\ \A i \in 1..3 : acks[i].kind = "ACK"

\* the commands of sendConfig and pollModule, in the order of the calls
StartupOrder ==
  <<cfg_ubx_only, config_rate_2x1hz, config_navpt_on, pollRate, pollNavPVT>>

\* C11: start-up sends set-protocol-filter, set-rate, enable-fix-output,
\* poll-rate, poll-fix-config in this order, and the response to each command
\* is read before the next command is sent.
C11_StartupOrder ==
  /\ Len(tx) <= Len(StartupOrder)
  /\ tx = SubSeq(StartupOrder, 1, Len(tx))
  /\ Len(acks) + Len(polls) \in {Len(tx) - 1, Len(tx)}
  /\ Len(tx) <= Len(acks) + Len(polls) + 1
  /\ Len(acks) <= 3
  /\ polls # <<>> => Len(acks) = 3

\* all five commands have been sent and all five responses read
C11_Witness ==
  /\ tx = StartupOrder
  /\ Len(acks) = 3
  /\ Len(polls) = 2

\* main runs whenever it can; the device is under no obligation to answer
SpecStartupFair ==
  SpecStartup /\ WF_vars(sendConfig \/ pollModule)

\* sendConfig and pollModule have returned
StartupDone ==
  mainPc \in {"create_gps", "create_pressure", "startGUI", "gtk_main", "exit",
              "join_gps", "join_pressure", "mutex_destroy", "free", "return"}

\* C12: the start-up sequence always terminates: whatever the device does,
\* silence included, sendConfig and pollModule eventually return.
C12_StartupTerminates == <>StartupDone

(***************************************************************************)
(* Shutdown: the CLOSE button, gtk_main_quit, main's join                  *)
(***************************************************************************)

\* on_close_button_clicked: atomic_store(guiRunning, false)
on_close_button_clicked_store ==
  /\ guiPc = "idle"
  /\ ProcessAlive
  /\ isRunning' = FALSE
  /\ guiPc' = "c_usleep"
  /\ UNCHANGED <<guiData, navpvt, drawPending, guiLat, guiLon>>
  /\ UNCHANGED <<rx, slots, overrun, bufferLock, gpsPc, currentBuffer,
                 useFrontBuffer, idleQueue, devNoise, devFrames, emitted,
                 writeLog, handedLog, ckVars, suVars>>

\* on_close_button_clicked: usleep(500000); gtk_main_quit(): gtk_main and
\* startGUI return and main goes on to pthread_join(gps_thread)
on_close_button_clicked_quit ==
  /\ guiPc = "c_usleep"
  /\ ProcessAlive
  /\ guiPc' = "quit"
  /\ mainPc' = "join_gps"
  /\ UNCHANGED <<guiData, navpvt, drawPending, guiLat, guiLon>>
  /\ UNCHANGED <<pressurePc, guiRunning, tx, acks, polls, xchgVars, ckVars>>

on_close_button_clicked ==
  \/ on_close_button_clicked_store
  \/ on_close_button_clicked_quit

\* a join that does not wait for the thread
main_join_gps_nowait ==
  /\ mainPc = "join_gps"
  /\ mainPc' = "join_pressure"
  /\ UNCHANGED <<pressurePc, guiRunning, tx, acks, polls, xchgVars, guiVars, ckVars>>

\* main: pthread_join(gps_thread, NULL) returns once startGPS has returned
main_join_gps ==
  /\ mainPc = "join_gps"
  /\ gpsPc = "return"
  /\ mainPc' = "join_pressure"
  /\ UNCHANGED <<pressurePc, guiRunning, tx, acks, polls, xchgVars, guiVars, ckVars>>

NextShutdown ==
  \/ startGPS
  \/ device_fix
  \/ gui_dispatch
  \/ updateGPSLabels
  \/ gui_expose
  \/ draw_map_and_marker
  \/ on_close_button_clicked
  \/ main_join_gps

\* every thread runs whenever it can; the user is under no obligation to
\* click, the device under none to send
SpecShutdown ==
  /\ ExchangeInit
  /\ [][NextShutdown]_vars
  /\ WF_vars(startGPS)
  /\ WF_vars(gui_dispatch \/ updateGPSLabels \/ draw_map_and_marker)
  /\ WF_vars(on_close_button_clicked_quit)
  /\ WF_vars(main_join_gps)

\* C13: once the running flag is false (on_close_button_clicked), startGPS
\* starts no new iteration after its next check of the flag, and eventually
\* returns, so that main's pthread_join completes.
C13_Cancellation ==
  /\ [][(~isRunning /\ gpsPc = "while") => gpsPc' # "lock"]_vars
  /\ (~isRunning) ~> (gpsPc = "return")
  /\ (mainPc = "join_gps") ~> (mainPc = "join_pressure")

(***************************************************************************)
(* A transport that stops delivering                                       *)
(***************************************************************************)

\* the GPS thread runs whenever it can, on a stream that ends
SpecReaderFair == SpecReader /\ WF_vars(startGPS)

\* C14: when the transport stops delivering frames, the producer loop ends
\* (startGPS returns, reporting the failure): it does not stay inside readUBX
\* waiting for the sync pattern.
C14_DeadTransportEndsLoop == ReaderStarved ~> (gpsPc = "return")

(***************************************************************************)
(* What startGPS publishes                                                 *)
(***************************************************************************)

\* the two checksum bytes readUBX stored are those of the class, id, length
\* and payload it stored
ImageValid(m) ==
  <<m.ck_a, m.ck_b>> =
    UbxChecksum(<<m.msgCls, m.msgID, m.msgLen % 256, m.msgLen \div 256>> \o m.payload)

\* C15: no frame whose trailing checksum bytes differ from the checksum of its
\* class, id, length and payload is handed to the consumer: the k-th
\* g_idle_add follows a k-th frame that carries its own checksum.
C15_ChecksumGate ==
  \A k \in 1..Len(handedLog) : ImageValid(emitted[k])

\* C16: a frame is published to the consumer only if it is the fix record,
\* class 0x01 id 0x07: the k-th g_idle_add follows a k-th frame of that type.
C16_OnlyFixPublished ==
  \A k \in 1..Len(handedLog) : emitted[k].msgCls = 1 /\ emitted[k].msgID = 7

(***************************************************************************)
(* The whole program: start-up, then the GPS thread and the GTK main loop  *)
(***************************************************************************)

MaxBootFixes == 2

\* what a device answers to the command cmd: an Ack or a Nack echoing its
\* class and id for a configuration command, the polled record for a poll
Confirmations(cmd) ==
  IF cmd = pollRate THEN {config_rate_2x1hz}
  ELSE IF cmd = pollNavPVT THEN {config_navpt_on}
  ELSE {AckFrame(1, FrameCls(cmd), FrameId(cmd)), AckFrame(0, FrameCls(cmd), FrameId(cmd))}

\* the device answers the command main is waiting on
device_confirm ==
  /\ MainStarved
  /\ rx = <<>>
  /\ \E f \in Confirmations(tx[Len(tx)]) :
       /\ rx' = f
       /\ devFrames' = Append(devFrames, f)
  /\ UNCHANGED <<suVars, slots, overrun, isRunning, bufferLock, gpsPc,
                 currentBuffer, useFrontBuffer, idleQueue, devNoise,
                 emitted, writeLog, handedLog, guiVars, ckVars>>

\* the device, configured, sends its next fix once startGPS waits for it
device_stream ==
  /\ ProcessAlive
  /\ gpsPc # "none"
  /\ ReaderStarved
  /\ rx = <<>>
  /\ Len(emitted) < MaxBootFixes
  /\ rx' = Fix(Len(emitted) + 1)
  /\ devFrames' = Append(devFrames, Fix(Len(emitted) + 1))
  /\ UNCHANGED <<slots, overrun, isRunning, bufferLock, gpsPc, currentBuffer,
                 useFrontBuffer, idleQueue, devNoise, emitted, writeLog, handedLog,
                 ckVars, guiVars, suVars>>

NextBoot ==
  \/ sendConfig
  \/ pollModule
  \/ main_create_gps
  \/ main_create_pressure
  \/ main_startGUI
  \/ device_confirm
  \/ startGPS
  \/ device_stream
  \/ gui_dispatch
  \/ updateGPSLabels
  \/ gui_expose
  \/ draw_map_and_marker

SpecBoot == StartupInit /\ [][NextBoot]_vars

\* main is inside sendConfig or pollModule
InStartup == ~StartupDone

\* C17: start-up does not overlap with streaming: when the producer thread
\* exists, sendConfig and pollModule have sent their last command and read
\* their last response, and no command or poll is sent from then on.
C17_NoOverlap ==
  /\ [](gpsPc # "none" =>
          /\ ~InStartup
          /\ tx = StartupOrder
          /\ Len(acks) = 3 /\ Len(polls) = 2)
  /\ [][gpsPc # "none" => (tx' = tx /\ acks' = acks /\ polls' = polls)]_vars

\* the producer thread has read a frame from the transport
C17_Witness ==
  /\ gpsPc # "none"
  /\ emitted # <<>>
  /\ tx = StartupOrder

(***************************************************************************)
(* bufferLock                                                              *)
(***************************************************************************)

\* the GPS thread is inside readUBX
InReadUBX == gpsPc \in {"seek", "memset", "payload", "payload2", "checksum"}

\* the next step of the GPS thread reads or writes a slot's contents
\* (readUBX, and the printf of navpvt->lat / lon)
GpsTouchesSlot == InReadUBX \/ gpsPc = "print"

\* the next step of the GTK thread reads a slot's contents (the labels, lat
\* and lon in updateGPSLabels, lat and lon in draw_map_and_marker)
GuiTouchesSlot == guiPc \in {"u_labels", "u_lat", "u_lon", "d_lat", "d_lon"}

\* C18: the producer does not hold bufferLock during a transport read: while
\* startGPS is inside readUBX the lock is not its own.
C18_NoLockDuringRead == InReadUBX => bufferLock # "gps"

\* C19: every read or write of a slot's contents happens while the thread
\* doing it holds bufferLock.
C19_LockGuardsSlots ==
  /\ GpsTouchesSlot => bufferLock = "gps"
  /\ GuiTouchesSlot => bufferLock = "gui"

\* both threads run whenever they can; the device is under no obligation to send
SpecExchangeFair ==
  /\ SpecExchange
  /\ WF_vars(startGPS)
  /\ WF_vars(gui_dispatch \/ updateGPSLabels \/ draw_map_and_marker)

\* C20: an updateGPSLabels callback that requests bufferLock eventually
\* acquires it, even if the device stops sending.
C20_ConsumerGetsLock == (guiPc = "u_lock") ~> (guiPc = "u_assign")

(***************************************************************************)
(* Lengths                                                                 *)
(***************************************************************************)

\* C21: whatever the received length field, readUBX writes at most the
\* capacity of the slot's payload container (92 bytes): neither its memset nor
\* its payload transfer is run with a length above the capacity.
C21_WriteWithinSlot ==
  /\ ~overrun
  /\ gpsPc \in {"memset", "payload", "payload2"} =>
       slots[currentBuffer].msgLen <= PayloadCap

(***************************************************************************)
(* readPollResponse and readACKResponse on one frame                       *)
(***************************************************************************)

MaxDecodeLen == 8

\* payload contents: CFG-MSG for NAV-PVT with the SPI rate 1 and 0, CFG-RATE
\* 250 ms / 2 / UTC and 500 ms / 2 / GPS time, an echo of (0x06,0x00) that
\* also reads as CFG-MSG for message (0x06,0x00) with the SPI rate 5
PayloadTemplates ==
  {<<1, 7, 0, 0, 0, 0, 1, 0>>, <<1, 7, 0, 0, 0, 0, 0, 0>>,
   <<250, 0, 2, 0, 0, 0, 0, 0>>, <<244, 1, 2, 0, 1, 0, 0, 0>>,
   <<6, 0, 0, 0, 0, 0, 5, 0>>}

\* the first n bytes of the template t, zero past its end
TemplatePayload(t, n) == [i \in 1..n |-> IF i <= Len(t) THEN t[i] ELSE 0]

DecodeFrames ==
  {MkFrame(cls, id, TemplatePayload(t, n)) :
     cls \in {1, 5, 6}, id \in {0, 1, 7, 8},
     t \in PayloadTemplates, n \in 0..MaxDecodeLen}

\* main is about to read one frame the device has sent, with
\* readPollResponse or with readACKResponse
DecodeInit ==
  /\ CkIdle
  /\ GuiIdle
  /\ mainPc \in {"readPollResponse", "readACKResponse"}
  /\ pressurePc = "none" /\ guiRunning = "null"
  /\ tx = <<>> /\ acks = <<>> /\ polls = <<>>
  /\ \E g \in HeapFill : slots = [b \in Slot |-> FreshSlot(g)]
  /\ devFrames \in [1..1 -> DecodeFrames]
  /\ rx = devFrames[1]
  /\ overrun = FALSE
  /\ isRunning = TRUE
  /\ bufferLock = "uninit"
  /\ gpsPc = "none"
  /\ currentBuffer = "front"
  /\ useFrontBuffer = TRUE
  /\ idleQueue = <<>>
  /\ devNoise = <<>>
  /\ emitted = <<>>
  /\ writeLog = <<>>
  /\ handedLog = <<>>

NextDecode ==
  \/ ReadPoll("readPollResponse", "done")
  \/ ReadAck("readACKResponse", "readACKResponse", "done")

SpecDecode == DecodeInit /\ [][NextDecode]_vars

\* the payload indices a decoder reads
DecoderReads(decoder) ==
  IF decoder = "checkRateSettings" THEN 0..5
  ELSE IF decoder = "checkConfigMsgSettings" THEN {0, 1, 6}
  ELSE {}

\* C22: the decoders never read a payload index at or beyond the received
\* length: checkRateSettings and checkConfigMsgSettings are applied only to
\* payloads that hold every byte they read.
C22_DecodersWithinPayload ==
  \A k \in 1..Len(polls) :
    \A i \in DecoderReads(polls[k].decoded.decoder) : i < polls[k].msgLen

(***************************************************************************)
(* Acknowledgements                                                        *)
(***************************************************************************)

\* the i-th acknowledgement read echoes the class and id of the i-th command
EchoMatches(i) ==
  acks[i].cls = FrameCls(tx[i]) /\ acks[i].id = FrameId(tx[i])

\* C23: an Ack or a Nack echoing another command is never taken as the answer
\* to the current one: main goes on past its i-th command only if the Ack or
\* Nack it read for it echoes that command's class and id.
C23_EchoConfirms ==
  \A i \in 1..Len(acks) :
    (Len(tx) > i /\ acks[i].kind \in {"ACK", "NACK"}) => EchoMatches(i)

\* the kind of a frame by its class and id
AckKindOf(f) ==
  IF FrameCls(f) = 5 /\ FrameId(f) = 1 THEN "ACK"
  ELSE IF FrameCls(f) = 5 /\ FrameId(f) = 0 THEN "NACK"
  ELSE "Unexpected"

\* C24: readACKResponse classifies the frame it reads as Ack exactly for
\* (0x05,0x01), as Nack exactly for (0x05,0x00), as unexpected otherwise, and
\* the echoed class and id it reports are payload bytes 0 and 1 of that frame.
C24_AckClassification ==
  \A k \in 1..Len(acks) :
    LET f == devFrames[k] IN
      /\ acks[k].kind = AckKindOf(f)
      /\ acks[k].kind \in {"ACK", "NACK"} =>
           /\ Len(FramePayload(f)) >= 2
           /\ acks[k].cls = FramePayload(f)[1]
           /\ acks[k].id = FramePayload(f)[2]

(***************************************************************************)
(* readPollResponse of the guiTest build (guiTest/gps_setup.c)             *)
(***************************************************************************)

\* guiTest checkRateSettings: a fixed text, nothing is read
checkRateSettings_guiTest(payload, g) ==
  [decoder |-> "checkRateSettings"]

\* guiTest checkConfigMsgSettings: payload[0] and payload[1]
checkConfigMsgSettings_guiTest(payload, g) ==
  [decoder |-> "checkConfigMsgSettings",
   verdict |-> IF At(payload, 0, g) = 1 /\ At(payload, 1, g) = 7
               THEN "Configured for NAV-PVT" ELSE "Unknown configuration"]

\* guiTest readPollResponse: both (0x06,0x01) and (0x06,0x08) call
\* checkConfigMsgSettings
readPollResponse_guiTest(s, g) ==
  LET n == SeekLen(s) IN
  IF n < 0 \/ Len(s) < n + 4 THEN [blocked |-> TRUE]
  ELSE
    LET msgCls == s[n + 1]
        msgID  == s[n + 2]
        msgLen == LE16(s[n + 3], s[n + 4])
    IN
    IF Len(s) < n + 4 + msgLen + 2 THEN [blocked |-> TRUE]
    ELSE
      LET payload == SubSeq(s, n + 5, n + 4 + msgLen) IN
      [blocked |-> FALSE, used |-> n + 4 + msgLen + 2,
       msgCls |-> msgCls, msgID |-> msgID, msgLen |-> msgLen, payload |-> payload,
       ck_a |-> s[n + 4 + msgLen + 1], ck_b |-> s[n + 4 + msgLen + 2],
       decoded |-> IF msgCls = 6 /\ msgID = 1 THEN checkConfigMsgSettings_guiTest(payload, g)
                   ELSE IF msgCls = 6 /\ msgID = 8 THEN checkConfigMsgSettings_guiTest(payload, g)
                   ELSE [decoder |-> "Unrecognized", msgCls |-> msgCls, msgID |-> msgID]]

\* readPollResponse() of the guiTest build
ReadPoll_guiTest(from, to) ==
  /\ mainPc = from
  /\ \E g \in StackFill :
       LET r == readPollResponse_guiTest(rx, g) IN
         /\ ~r.blocked
         /\ rx' = Drop(rx, r.used)
         /\ polls' = Append(polls, [msgCls |-> r.msgCls, msgID |-> r.msgID,
                                    msgLen |-> r.msgLen, payload |-> r.payload,
                                    decoded |-> r.decoded])
  /\ mainPc' = to
  /\ UNCHANGED <<pressurePc, guiRunning, tx, acks, slots, overrun, isRunning, bufferLock, gpsPc,
                 currentBuffer, useFrontBuffer, idleQueue, devNoise, devFrames,
                 emitted, writeLog, handedLog, guiVars, ckVars>>

DecodeInit_guiTest == DecodeInit /\ mainPc = "readPollResponse"

NextDecode_guiTest == ReadPoll_guiTest("readPollResponse", "done")

SpecDecode_guiTest == DecodeInit_guiTest /\ [][NextDecode_guiTest]_vars

\* the decoder the class and id of a poll response select
DecoderOf(cls, id) ==
  IF cls = 6 /\ id = 8 THEN "checkRateSettings"
  ELSE IF cls = 6 /\ id = 1 THEN "checkConfigMsgSettings"
  ELSE "Unrecognized"

\* C25: readPollResponse routes a frame by its class and id alone: (0x06,0x08)
\* to checkRateSettings, (0x06,0x01) to checkConfigMsgSettings, every other
\* pair to the unrecognized branch; every frame read is routed.
C25_PollDispatch ==
  /\ \A k \in 1..Len(polls) :
       polls[k].decoded.decoder = DecoderOf(polls[k].msgCls, polls[k].msgID)
  /\ (mainPc = "done" /\ acks = <<>>) => Len(polls) = 1

(***************************************************************************)
(* pollModule                                                              *)
(***************************************************************************)

\* C26: the frame readPollResponse decodes after pollRate is the rate
\* configuration (0x06,0x08) and the frame it decodes after pollNavPVT is the
\* message-enablement configuration (0x06,0x01), whatever other frames the
\* device delivers.
C26_PollDecodesItsAnswer ==
  /\ Len(polls) >= 1 =>
       /\ polls[1].msgCls = 6 /\ polls[1].msgID = 8
       /\ polls[1].decoded.decoder = "checkRateSettings"
  /\ Len(polls) >= 2 =>
       /\ polls[2].msgCls = 6 /\ polls[2].msgID = 1
       /\ polls[2].decoded.decoder = "checkConfigMsgSettings"

(***************************************************************************)
(* checkConfigMsgSettings                                                  *)
(***************************************************************************)

\* the poll responses that went to checkConfigMsgSettings
MsgDecoded == {k \in 1..Len(polls) : polls[k].decoded.decoder = "checkConfigMsgSettings"}

\* what checkConfigMsgSettings read is what the payload holds at 0, 1 and 6
ReadsRateByte(k) ==
  polls[k].msgLen >= 7 =>
    /\ polls[k].decoded.msgClass = polls[k].payload[1]
    /\ polls[k].decoded.msgID = polls[k].payload[2]
    /\ polls[k].decoded.rateSPI = polls[k].payload[7]

\* C27 as stated: the configured message is reported as enabled exactly when
\* the SPI rate byte payload[6] is nonzero and as disabled exactly when it is
\* zero, whatever the message.
C27_EnabledIffRateAnyMsg ==
  \A k \in MsgDecoded :
    /\ ReadsRateByte(k)
    /\ polls[k].decoded.verdict = "ENABLED" <=> polls[k].decoded.rateSPI # 0
    /\ polls[k].decoded.verdict = "DISABLED" <=> polls[k].decoded.rateSPI = 0

\* C27, amended: for the fix record (0x01,0x07) the report is enabled exactly
\* when payload[6] is nonzero and disabled exactly when it is zero; for any
\* other message there is neither report; the payload of the enable_navPVT
\* frame gives enabled.
C27_EnabledIffRate ==
  /\ \A k \in MsgDecoded :
       LET d == polls[k].decoded
           fix == d.msgClass = 1 /\ d.msgID = 7
       IN
         /\ ReadsRateByte(k)
         /\ d.verdict = "ENABLED" <=> (fix /\ d.rateSPI # 0)
         /\ d.verdict = "DISABLED" <=> (fix /\ d.rateSPI = 0)
         /\ d.verdict = "none" <=> ~fix
  /\ \A g \in StackFill :
       checkConfigMsgSettings(FramePayload(config_navpt_on), g).verdict = "ENABLED"

\* a CFG-MSG record for the fix record with a nonzero SPI rate has been decoded
C27_Witness ==
  \E k \in MsgDecoded :
    /\ polls[k].msgLen >= 7
    /\ polls[k].payload[1] = 1 /\ polls[k].payload[2] = 7 /\ polls[k].payload[7] # 0
    /\ polls[k].decoded.verdict = "ENABLED"

(***************************************************************************)
(* readUBX: which bytes it reads                                           *)
(***************************************************************************)

\* the frames of the stream from the k-th on, back to back
FramesFrom(k) == Flatten(SubSeq(devFrames, k, Len(devFrames)))

\* the frame readUBX is reading: the one after those it has emitted
CurFrame == devFrames[Len(emitted) + 1]

\* C28: after the sync pattern readUBX reads the class byte, the id byte and
\* two length bytes, then length = lenLow + 256*lenHigh payload bytes, then two
\* checksum bytes, no byte skipped or read twice, and the stored msgLen is
\* that length: on a stream of frames (after noise without the sync pattern)
\* the bytes still pending at each step are exactly the unread rest of the
\* current frame followed by the later frames, and each frame is stored as sent.
C28_ExactReads ==
  ~HasPair(devNoise, HEADER1, HEADER2) =>
    /\ Len(emitted) <= Len(devFrames)
    /\ \A k \in 1..Len(emitted) : emitted[k] = FrameImage(devFrames[k])
    /\ gpsPc \in {"unlock", "print", "flip", "idle_add", "usleep", "while", "lock", "return"} =>
         rx = IF emitted = <<>> THEN devNoise \o FramesFrom(1)
              ELSE FramesFrom(Len(emitted) + 1)
    /\ gpsPc = "seek" =>
         rx = IF emitted = <<>> THEN devNoise \o FramesFrom(1)
              ELSE FramesFrom(Len(emitted) + 1)
    /\ gpsPc \in {"memset", "payload"} =>
         /\ slots[currentBuffer].msgCls = FrameCls(CurFrame)
         /\ slots[currentBuffer].msgID = FrameId(CurFrame)
         /\ slots[currentBuffer].msgLen = Len(FramePayload(CurFrame))
         /\ rx = Drop(CurFrame, 6) \o FramesFrom(Len(emitted) + 2)
    /\ gpsPc = "payload2" =>
         rx = Drop(CurFrame, 6 + Min(Len(FramePayload(CurFrame)), LatOffset))
                \o FramesFrom(Len(emitted) + 2)
    /\ gpsPc = "checksum" =>
         rx = Drop(CurFrame, Len(CurFrame) - 2) \o FramesFrom(Len(emitted) + 2)

\* three frames back to back, one with the sync pattern inside its payload,
\* have all been read and nothing is left
C28_Witness ==
  /\ Len(devFrames) = 3
  /\ Len(emitted) = 3
  /\ \E k \in 1..3 : HasPair(FramePayload(devFrames[k]), HEADER1, HEADER2)
  /\ gpsPc = "seek"
  /\ rx = <<>>

(***************************************************************************)
(* The seeking loop                                                        *)
(***************************************************************************)

\* the positions of s (counted in bytes read) at which the two most recently
\* read bytes are 0xB5 followed by 0x62
SyncPositions(s) == {n \in 2..Len(s) : s[n - 1] = HEADER1 /\ s[n] = HEADER2}

\* the first of them, -1 when there is none
FirstSync(s) ==
  IF SyncPositions(s) = {} THEN -1
  ELSE CHOOSE n \in SyncPositions(s) : \A m \in SyncPositions(s) : n <= m

\* the stream the device sends in all
Stream == devNoise \o FramesFrom(1)

\* C29: the seeking loop leaves the seeking state exactly at the first stream
\* position where the two most recently read bytes are 0xB5 0x62, never
\* earlier, and the initial window 0xFFFF gives no match before two bytes
\* have been read: on the pending bytes at every step, and for the first
\* envelope readUBX reads.
C29_SeekStopsAtFirstSync ==
  /\ SeekLen(rx) = FirstSync(rx)
  /\ SeekLen(rx) # 0 /\ SeekLen(rx) # 1
  /\ (emitted = <<>> /\ gpsPc = "memset") =>
       Len(Stream) - Len(rx) = FirstSync(Stream) + 4

\* readUBX has left the seeking loop after noise that starts with 0x62 and
\* holds 0xB5 without the sync pattern
C29_Witness ==
  /\ devNoise = <<HEADER2, HEADER1, HEADER1>>
  /\ emitted = <<>>
  /\ gpsPc = "memset"
  /\ Len(Stream) - Len(rx) = 9

(***************************************************************************)
(* The wire format of the fixed frames                                     *)
(***************************************************************************)

\* sync bytes, class, id, little-endian length, that many payload bytes, two
\* checksum bytes
WellFormed(f) ==
  /\ Len(f) >= 8
  /\ f[1] = HEADER1 /\ f[2] = HEADER2
  /\ LE16(f[5], f[6]) = Len(FramePayload(f))
  /\ Len(f) = LE16(f[5], f[6]) + 8

\* C30: each of the six fixed outbound frames begins with 0xB5 0x62 and its
\* little-endian length field is the number of payload bytes it carries, so
\* its size is length + 8; so is every frame main has sent.
C30_FixedFramesWellFormed ==
  /\ \A f \in FixedFrames : WellFormed(f)
  /\ \A i \in 1..Len(tx) : tx[i] \in FixedFrames /\ WellFormed(tx[i])

\* main has sent its five frames, the 28-byte set-protocol frame first
C30_Witness ==
  /\ Len(tx) = 5
  /\ Len(tx[1]) = 28 /\ LE16(tx[1][5], tx[1][6]) = 20
  /\ Len(tx[4]) = 8 /\ LE16(tx[4][5], tx[4][6]) = 0

(***************************************************************************)
(* What sendConfig configures                                              *)
(***************************************************************************)

\* C31: sendConfig sends, in this order, the UBX-only protocol frame, a
\* set-rate frame carrying the 250 ms measurement interval of the 4x2 preset
\* (2 Hz messages from 4 Hz measurements), and the NAV-PVT enable frame.
C31_ConfiguresFourByTwo ==
  /\ Len(tx) >= 1 => tx[1] = cfg_ubx_only
  /\ Len(tx) >= 2 =>
       /\ FrameCls(tx[2]) = 6 /\ FrameId(tx[2]) = 8
       /\ checkRateSettings(FramePayload(tx[2]), 0).measRate = 250
       /\ checkRateSettings(FramePayload(tx[2]), 0).navRate = 2
  /\ Len(tx) >= 3 => tx[3] = config_navpt_on

(***************************************************************************)
(* The producer's slots and the callbacks                                  *)
(***************************************************************************)

\* the slot of the k-th readUBX call
KthSlot(k) == IF k % 2 = 1 THEN "front" ELSE "back"

\* C32: the producer alternates strictly between the two slots, starting with
\* the front slot: the k-th readUBX call writes the front slot for odd k and
\* the back slot for even k.
C32_StrictAlternation ==
  /\ \A k \in 1..Len(writeLog) : writeLog[k] = KthSlot(k)
  /\ InReadUBX => currentBuffer = KthSlot(Len(writeLog) + 1)

\* three frames have been read: front, back, front
C32_Witness == writeLog = <<"front", "back", "front">>

\* callbacks the main loop has started: the sources scheduled and no longer pending
CallbacksRun == Len(handedLog) - Len(idleQueue)

\* a step of the producer past its g_idle_add
Schedules == gpsPc = "idle_add" /\ gpsPc' = "usleep"

\* a step of the main loop into updateGPSLabels
Dispatches == guiPc = "idle" /\ guiPc' = "u_lock"

\* C33: every completed producer iteration schedules exactly one
\* updateGPSLabels callback, every scheduled callback is run at most once (its
\* source is removed when it is dispatched), and the number of callbacks run
\* never exceeds the number of frames read.
C33_OncePerPublish ==
  /\ [](/\ CallbacksRun >= 0
        /\ CallbacksRun <= Len(writeLog)
        /\ Len(handedLog) <= Len(writeLog)
        /\ gpsPc \in {"usleep", "while", "lock"} => Len(handedLog) = Len(writeLog))
  /\ [][/\ Schedules => /\ Len(idleQueue') = Len(idleQueue) + 1
                        /\ Len(handedLog') = Len(handedLog) + 1
        /\ Dispatches => /\ idleQueue # <<>>
                         /\ idleQueue' = Tail(idleQueue)
                         /\ guiData' = Head(idleQueue)
        /\ idleQueue' # idleQueue => Schedules \/ Dispatches
        /\ handedLog' # handedLog => Schedules]_vars

\* three frames read and handed; two callbacks have run to their end, the
\* third is still pending
C33_Witness ==
  /\ Len(writeLog) = 3 /\ Len(handedLog) = 3
  /\ Len(idleQueue) = 1 /\ guiPc = "idle"

(***************************************************************************)
(* The life of the exchange: thread creation, the pressure thread, the end *)
(* of the GTK main loop, main's joins, pthread_mutex_destroy and the frees  *)
(***************************************************************************)

\* simulatePressure: while (atomic_load(guiRunning)). The load goes through the
\* global pointer: while that is still null the behaviour is undefined (a
\* fault, or whatever value the load yields)
simulatePressure_while ==
  /\ pressurePc = "while"
  /\ ProcessAlive
  /\ IF guiRunning = "null"
       THEN pressurePc' \in {"segv", "body", "return"}
       ELSE pressurePc' = IF isRunning THEN "body" ELSE "return"
  /\ UNCHANGED <<mainPc, tx, acks, polls, guiRunning, xchgVars, guiVars, ckVars>>

\* simulatePressure: the two pressure flags are toggled, updatePressureDisplay
\* is scheduled (it sets the two circle images and touches nothing else),
\* sleep(3)
simulatePressure_body ==
  /\ pressurePc = "body"
  /\ ProcessAlive
  /\ pressurePc' = "while"
  /\ UNCHANGED <<mainPc, tx, acks, polls, guiRunning, xchgVars, guiVars, ckVars>>

simulatePressure ==
  \/ simulatePressure_while
  \/ simulatePressure_body

\* the window's "destroy" signal is connected to gtk_main_quit itself:
\* gtk_main and startGUI return and main goes on to pthread_join(gps_thread)
window_destroy ==
  /\ guiPc = "idle"
  /\ ProcessAlive
  /\ guiPc' = "quit"
  /\ mainPc' = "join_gps"
  /\ UNCHANGED <<guiData, navpvt, drawPending, guiLat, guiLon>>
  /\ UNCHANGED <<pressurePc, guiRunning, tx, acks, polls, xchgVars, ckVars>>

\* main: pthread_join(pressure_thread, NULL) returns once simulatePressure has
main_join_pressure ==
  /\ mainPc = "join_pressure"
  /\ ProcessAlive
  /\ pressurePc = "return"
  /\ mainPc' = "mutex_destroy"
  /\ UNCHANGED <<pressurePc, guiRunning, tx, acks, polls, xchgVars, guiVars, ckVars>>

\* main: pthread_mutex_destroy(&buffers.bufferLock)
main_mutex_destroy ==
  /\ mainPc = "mutex_destroy"
  /\ ProcessAlive
  /\ bufferLock' = "destroyed"
  /\ mainPc' = "free"
  /\ UNCHANGED <<pressurePc, guiRunning, tx, acks, polls, rx, slots, overrun, isRunning,
                 gpsPc, currentBuffer, useFrontBuffer, idleQueue, devNoise,
                 devFrames, emitted, writeLog, handedLog, guiVars, ckVars>>

\* main: the two payloads and the two slots are freed, bcm2835_spi_end,
\* bcm2835_close, return 0
main_free ==
  /\ mainPc = "free"
  /\ ProcessAlive
  /\ mainPc' = "return"
  /\ UNCHANGED <<pressurePc, guiRunning, tx, acks, polls, xchgVars, guiVars, ckVars>>

NextLifetime ==
  \/ sendConfig
  \/ pollModule
  \/ main_create_gps
  \/ main_create_pressure
  \/ main_startGUI
  \/ device_confirm
  \/ startGPS
  \/ device_stream
  \/ simulatePressure
  \/ gui_dispatch
  \/ updateGPSLabels
  \/ gui_expose
  \/ draw_map_and_marker
  \/ on_close_button_clicked
  \/ window_destroy
  \/ main_join_gps
  \/ main_join_pressure
  \/ main_mutex_destroy
  \/ main_free

SpecLifetime == StartupInit /\ [][NextLifetime]_vars

\* the two slots and their payloads have been freed (main.c 190-193)
SlotsFreed == mainPc = "return"

\* a thread that locks bufferLock or touches a slot exists and can still run
ProducerLive == gpsPc \notin {"none", "return"}
ConsumerLive == guiPc \notin {"none", "quit"}

\* C34: every use of the shared exchange lies within its lifetime: bufferLock
\* is initialised before any thread can lock it, and it is destroyed and the
\* slots are freed only after the producer thread has returned and the GTK
\* main loop, which runs the consumer callbacks, has ended; no slot is read or
\* written once it is freed.
C34_ExchangeLifetime ==
  /\ (ProducerLive \/ ConsumerLive) => bufferLock \notin {"uninit", "destroyed"}
  /\ (bufferLock = "destroyed" \/ SlotsFreed) => (~ProducerLive /\ ~ConsumerLive)
  /\ SlotsFreed => (bufferLock = "destroyed" /\ ~GpsTouchesSlot /\ ~GuiTouchesSlot)

\* main has freed the slots after the producer wrote one and handed it over
C34_Witness ==
  /\ SlotsFreed
  /\ writeLog # <<>> /\ handedLog # <<>>
  /\ gpsPc = "return"

\* every thread runs whenever it can; the user is under no obligation to
\* click or to close the window, the device under none to send
SpecLifetimeFair ==
  /\ SpecLifetime
  /\ WF_vars(sendConfig \/ pollModule)
  /\ WF_vars(main_create_gps \/ main_create_pressure \/ main_startGUI)
  /\ WF_vars(startGPS)
  /\ WF_vars(simulatePressure)
  /\ WF_vars(gui_dispatch \/ updateGPSLabels \/ draw_map_and_marker)
  /\ WF_vars(on_close_button_clicked_quit)
  /\ WF_vars(main_join_gps \/ main_join_pressure \/ main_mutex_destroy \/ main_free)

\* main is past both joins
Joined == mainPc \in {"mutex_destroy", "free", "return"}

\* C35: every way out of the GTK main loop, the CLOSE button and the window's
\* destroy signal alike, has first set the running flag to false, so that
\* main's pthread_join on the GPS thread and on the pressure thread return.
C35_QuitAfterFlag ==
  /\ [](guiPc = "quit" => ~isRunning)
  /\ (mainPc = "join_gps") ~> Joined

\* simulatePressure evaluates its loop condition: atomic_load(guiRunning)
LoadsGuiRunning == pressurePc = "while" /\ pressurePc' # pressurePc

\* C36: simulatePressure loads the running flag through guiRunning only after
\* startGUI has assigned guiRunning; it never loads through the unset pointer.
C36_LoadAfterAssign ==
  /\ [](pressurePc # "segv")
  /\ [][LoadsGuiRunning => guiRunning = "set"]_vars

\* draw_map_and_marker is at a read of navpvt->lat or navpvt->lon
DrawReadsFix == guiPc \in {"d_lat", "d_lon"}

\* C37: draw_map_and_marker reads the fix record through navpvt only after
\* updateGPSLabels has assigned it: no draw runs while navpvt is unset.
C37_DrawAfterAssign ==
  /\ DrawReadsFix => navpvt # "null"
  /\ guiPc # "segv"

\* readACKResponse has returned from reading the frame the device sent
AckRead == mainPc = "done" /\ acks # <<>>

\* C38: readACKResponse consumes exactly one whole frame whatever the value of
\* its length field: the next byte to be read is the first one after the
\* frame's checksum bytes, and the two bytes it takes as ck_a and ck_b are the
\* frame's checksum bytes.
C38_AckWholeFrame ==
  AckRead =>
    LET f == devFrames[1]
        r == readACKResponse(f)
    IN /\ rx = <<>>
       /\ r.used = Len(f)
       /\ r.ck_a = f[Len(f) - 1]
       /\ r.ck_b = f[Len(f)]

====
